---- MODULE Spec2Model ----
(***************************************************************************)
(* Model of covid_analysis_helpers/data_loader.py: the two CSV loaders     *)
(* (load_cases_data, load_patient_info), assign_age_category and the       *)
(* timeseries expander update_time_df.                                     *)
(*                                                                         *)
(* A table is a record [cols, idx, data]: the ordered column names, the    *)
(* index labels and, per row, the cells in column order.  A numeric cell   *)
(* is a record [k, n, d]: k = "int" (n), "float" (n/d in lowest terms,     *)
(* d > 0), "inf" (sign in n) or "nan" (the missing marker of the library). *)
(***************************************************************************)
EXTENDS Integers, Sequences, FiniteSets, TLC

VARIABLES df, expand, ratio, grouping, df_arg, expand_arg, ret,
          cases_csv, cases_out, patient_csv, patient_out

time_vars == <<df, expand, ratio, grouping, df_arg, expand_arg, ret>>
cases_vars == <<cases_csv, cases_out>>
patient_vars == <<patient_csv, patient_out>>
vars == <<df, expand, ratio, grouping, df_arg, expand_arg, ret,
          cases_csv, cases_out, patient_csv, patient_out>>

(* ------------------------------ bounds --------------------------------- *)

MaxRows == 3

(* ------------------------------ numbers -------------------------------- *)

Int_(v) == [k |-> "int", n |-> v, d |-> 1]

NaN == [k |-> "nan", n |-> 0, d |-> 0]

Inf(s) == [k |-> "inf", n |-> s, d |-> 0]

Abs(v) == IF v < 0 THEN -v ELSE v

RECURSIVE Gcd(_, _)
Gcd(a, b) == IF b = 0 THEN a ELSE Gcd(b, a % b)

\* a float holding n/d (d > 0), kept in lowest terms so that equal values are equal cells
Float(n, d) ==
    LET g == Gcd(Abs(n), d) IN [k |-> "float", n |-> n \div g, d |-> d \div g]

isnull(x) == x.k = "nan"

\* x - y of two numeric cells; anything minus a missing value is missing
Sub(x, y) ==
    IF isnull(x) \/ isnull(y) THEN NaN
    ELSE IF x.k = "int" /\ y.k = "int" THEN Int_(x.n - y.n)
    ELSE Float(x.n * y.d - y.n * x.d, x.d * y.d)

\* x / y, true division of the library: a float, with 0/0 = nan and v/0 = +-inf
TrueDiv(x, y) ==
    IF isnull(x) \/ isnull(y) THEN NaN
    ELSE IF y.n = 0 THEN (IF x.n = 0 THEN NaN ELSE Inf(IF x.n > 0 THEN 1 ELSE -1))
    ELSE IF y.n > 0 THEN Float(x.n * y.d, x.d * y.n)
    ELSE Float(-(x.n * y.d), x.d * (-y.n))

\* can the cell be cast to an integer (astype(int) raises on nan and inf)
IntCastable(x) == x.k \in {"int", "float"}

\* astype(int) of one castable cell: truncation toward zero
AsInt(x) ==
    IF x.k = "int" THEN x
    ELSE IF x.n >= 0 THEN Int_(x.n \div x.d) ELSE Int_(-((-x.n) \div x.d))

(* ------------------------------ tables --------------------------------- *)

NoTable == [cols |-> <<>>, idx |-> <<>>, data |-> <<>>]

NRows(t) == Len(t.idx)

HasCol(t, c) == \E j \in 1..Len(t.cols) : t.cols[j] = c

\* position of column c of t (the first one of that name)
ColPos(t, c) == CHOOSE j \in 1..Len(t.cols) : t.cols[j] = c /\ \A i \in 1..(j - 1) : t.cols[i] # c

Cell(t, r, c) == t.data[r][ColPos(t, c)]

InList(e, c) == \E j \in 1..Len(e) : e[j] = c

\* t[c] = column: replaces the column of that name, or appends a new one
SetCol(t, c, column) ==
    IF HasCol(t, c)
    THEN [t EXCEPT !.data = [r \in 1..NRows(t) |->
                                [t.data[r] EXCEPT ![ColPos(t, c)] = column[r]]]]
    ELSE [cols |-> Append(t.cols, c), idx |-> t.idx,
          data |-> [r \in 1..NRows(t) |-> Append(t.data[r], column[r])]]

\* df.rename(columns={old: new}): every column named old is renamed, others are kept
Rename(t, old, new) ==
    [t EXCEPT !.cols = [j \in 1..Len(t.cols) |-> IF t.cols[j] = old THEN new ELSE t.cols[j]]]

add_prefix(t, p) == [t EXCEPT !.cols = [j \in 1..Len(t.cols) |-> p \o t.cols[j]]]

\* pd.concat([a, b], axis=1) of two tables that carry the same index
concat(a, b) ==
    [cols |-> a.cols \o b.cols, idx |-> a.idx,
     data |-> [r \in 1..NRows(a) |-> a.data[r] \o b.data[r]]]


(* ------------------------- text and parsing ---------------------------- *)

\* a text cell (a string) and the missing marker in a column of strings
Str(s) == [k |-> "str", s |-> s]

NaS == [k |-> "nan", s |-> ""]

StrEq(x, s) == x.k = "str" /\ x.s = s

Digits == {"0", "1", "2", "3", "4", "5", "6", "7", "8", "9"}

DigitVal(c) ==
    CASE c = "0" -> 0 [] c = "1" -> 1 [] c = "2" -> 2 [] c = "3" -> 3 [] c = "4" -> 4
      [] c = "5" -> 5 [] c = "6" -> 6 [] c = "7" -> 7 [] c = "8" -> 8 [] c = "9" -> 9

RECURSIVE Pow10(_)
Pow10(i) == IF i = 0 THEN 1 ELSE 10 * Pow10(i - 1)

\* the digits of s read as a decimal number, other characters skipped
RECURSIVE DigitsValue(_)
DigitsValue(s) ==
    IF s = <<>> THEN 0
    ELSE LET front == SubSeq(s, 1, Len(s) - 1)
             c == s[Len(s)]
         IN IF c \in Digits THEN 10 * DigitsValue(front) + DigitVal(c) ELSE DigitsValue(front)

\* is the text of a field a number: an optional sign, digits, at most one point
IsNumber(s) ==
    LET body == IF s # <<>> /\ s[1] = "-" THEN Tail(s) ELSE s
    IN /\ \A i \in 1..Len(body) : body[i] \in Digits \cup {"."}
       /\ Cardinality({i \in 1..Len(body) : body[i] = "."}) <= 1
       /\ \E i \in 1..Len(body) : body[i] \in Digits

\* the float a numeric text stands for
ParseNumber(s) ==
    LET neg == s[1] = "-"
        body == IF neg THEN Tail(s) ELSE s
        dots == {i \in 1..Len(body) : body[i] = "."}
        frac == IF dots = {} THEN 0 ELSE Len(body) - (CHOOSE i \in dots : TRUE)
        v == DigitsValue(body)
    IN Float(IF neg THEN -v ELSE v, Pow10(frac))

\* astype(float) of one cell of a column read from the file: a missing cell stays
\* missing, a text is parsed
CanFloat(x) == x.k = "nan" \/ IsNumber(x.s)

AsFloat(x) == IF x.k = "nan" THEN NaN ELSE ParseNumber(x.s)

\* a text cell holding the characters s; the empty field is read as missing
Field(s) == IF s = <<>> THEN [k |-> "nan", s |-> <<>>] ELSE [k |-> "str", s |-> s]

(* --------------------------- load_cases_data --------------------------- *)

Sentinel == <<"-">>

\* MaskCoordinates as it would be if only the latitude were set to missing
MaskCoordinates_latitude_only(row) ==
    IF row.latitude.k = "str" /\ row.latitude.s = Sentinel
    THEN [row EXCEPT !.latitude = Field(<<>>)]
    ELSE row

\* line 31: a row whose latitude is "-" has both coordinates set to missing
MaskCoordinates(row) ==
    IF row.latitude.k = "str" /\ row.latitude.s = Sentinel
    THEN [row EXCEPT !.latitude = Field(<<>>), !.longitude = Field(<<>>)]
    ELSE row

\* lines 32-33: a row whose city is "-" takes its province as city
SubstituteCity(row) ==
    IF StrEq(row.city, "-") THEN [row EXCEPT !.city = row.province] ELSE row

\* lines 34-36: sub_city is the city, or the province where the city is "from other city"
sub_city(row) ==
    IF StrEq(row.city, "from other city") THEN row.province ELSE row.city

\* CleanCase as it would be with sub_city copied before the city is substituted
CleanCase_early_copy(row) ==
    LET r == SubstituteCity(MaskCoordinates(row))
    IN [province |-> r.province, city |-> r.city, sub_city |-> sub_city(row),
        latitude |-> r.latitude, longitude |-> r.longitude]

\* lines 31-36 on one row
CleanCase(row) ==
    LET r == SubstituteCity(MaskCoordinates(row))
    IN [province |-> r.province, city |-> r.city, sub_city |-> sub_city(r),
        latitude |-> r.latitude, longitude |-> r.longitude]

\* the whole load: the cleaned rows with the coordinates as floats, or the error of
\* the cast of line 40 when a coordinate left in some row is not a number
load_cases_data(file) ==
    LET cleaned == [i \in 1..Len(file) |-> CleanCase(file[i])]
    IN IF \E i \in 1..Len(file) : ~CanFloat(cleaned[i].latitude) \/ ~CanFloat(cleaned[i].longitude)
       THEN [status |-> "ValueError", rows |-> <<>>]
       ELSE [status |-> "ok",
             rows |-> [i \in 1..Len(file) |->
                         [cleaned[i] EXCEPT !.latitude = AsFloat(cleaned[i].latitude),
                                            !.longitude = AsFloat(cleaned[i].longitude)]]]

(* ----------------------- the cases files on disk ----------------------- *)

MaxCases == 2

Provinces == {Str("Seoul"), NaS}

Cities == {Str("-"), Str("from other city"), Str("Guro-gu"), NaS}

Latitudes == {Field(<<>>), Field(Sentinel), Field(<<"3", "7", ".", "5">>)}

Longitudes == {Field(Sentinel), Field(<<"1", "2", "7">>), Field(<<"-", "8", ".", "2", "5">>)}

CaseRows ==
    [province : Provinces, city : Cities, latitude : Latitudes, longitude : Longitudes]

CaseFiles == UNION {[1..n -> CaseRows] : n \in 1..MaxCases}

NotLoaded == [status |-> "none", rows |-> <<>>]

\* a file of cases is on disk, nothing is loaded; the other functions are not used
CasesInit ==
    /\ cases_csv \in CaseFiles /\ cases_out = NotLoaded
    /\ patient_csv = <<>> /\ patient_out = NotLoaded
    /\ df = NoTable /\ expand = <<>> /\ ratio = <<"", "">> /\ grouping = "None"
    /\ df_arg = NoTable /\ expand_arg = <<>> /\ ret = [status |-> "none", table |-> NoTable]

\* the analysis script calls load_cases_data(path) on the file at path
LoadCases ==
    /\ cases_out' = load_cases_data(cases_csv)
    /\ UNCHANGED cases_csv


(* -------------------------- load_patient_info -------------------------- *)

\* the code point of a character of an age text
Ord(c) == IF c \in Digits THEN 48 + DigitVal(c) ELSE 115

\* x <= y of two strings of the language: by code point, a proper prefix first
RECURSIVE StrLE(_, _)
StrLE(x, y) ==
    IF x = <<>> THEN TRUE
    ELSE IF y = <<>> THEN FALSE
    ELSE IF Ord(Head(x)) # Ord(Head(y)) THEN Ord(Head(x)) < Ord(Head(y))
    ELSE StrLE(Tail(x), Tail(y))

Age(n) == IF n = 0 THEN <<"0", "s">>
          ELSE IF n = 10 THEN <<"1", "0", "0", "s">>
          ELSE <<CHOOSE c \in Digits : DigitVal(c) = n, "0", "s">>

\* the categories of age_dtype, in their order
age_categories == [i \in 1..11 |-> Age(i - 1)]

\* astype(age_dtype): a value outside the categories becomes missing
AsAge(x) ==
    IF x.k = "str" /\ \E i \in 1..Len(age_categories) : age_categories[i] = x.s
    THEN x ELSE Field(<<>>)

\* x is the element apply hands over: the category as a plain string, or nan
assign_age_category(x) ==
    IF x.k = "nan" THEN NaS
    ELSE IF StrLE(x.s, <<"2", "0", "s">>) THEN Str("young")
    ELSE IF StrLE(x.s, <<"5", "0", "s">>) THEN Str("middle")
    ELSE Str("old")

RECURSIVE Pow2(_)
Pow2(i) == IF i = 0 THEN 1 ELSE 2 * Pow2(i - 1)

\* the largest e with 2^e <= v, for v >= 1
RECURSIVE Log2(_)
Log2(v) == IF v < 2 THEN 0 ELSE 1 + Log2(v \div 2)

\* astype("float32") of a cell holding a whole number: the nearest number with a
\* significand of 24 bits, a tie going to the even one; other cells are unchanged
AsFloat32(x) ==
    IF x.k # "float" \/ x.d # 1 \/ Abs(x.n) < Pow2(24) THEN x
    ELSE LET v == Abs(x.n)
             ulp == Pow2(Log2(v) - 23)
             q == v \div ulp
             rem == v % ulp
             m == IF 2 * rem > ulp \/ (2 * rem = ulp /\ q % 2 = 1) THEN q + 1 ELSE q
         IN Float(IF x.n < 0 THEN -(m * ulp) ELSE m * ulp, 1)

\* a date field of the file: a date of 2020, an empty field or only whitespace
DateText(m, d) == [k |-> "date", m |-> m, d |-> d]

EmptyText == [k |-> "empty", m |-> 0, d |-> 0]

BlankText == [k |-> "blank", m |-> 0, d |-> 0]

NaT == [k |-> "nat", n |-> 0]

DaysInMonth(m) == IF m = 2 THEN 29 ELSE IF m \in {4, 6, 9, 11} THEN 30 ELSE 31

RECURSIVE DaysBefore(_)
DaysBefore(m) == IF m = 1 THEN 0 ELSE DaysBefore(m - 1) + DaysInMonth(m - 1)

\* the timestamp of a date field: the day of the year 2020, not-a-time for no date
Timestamp(x) ==
    IF x.k = "date" THEN [k |-> "date", n |-> DaysBefore(x.m) + x.d] ELSE NaT

\* Days as it would be with the two dates exchanged
Days_exchanged(x, y) == IF x.k = "nat" \/ y.k = "nat" THEN NaN ELSE Float(y.n - x.n, 1)

\* (x - y).days of two timestamps: missing when one of them is not-a-time
Days(x, y) == IF x.k = "nat" \/ y.k = "nat" THEN NaN ELSE Float(x.n - y.n, 1)

\* IsPatientId as it would be with a test for ten characters or more
IsPatientId_or_longer(x) == x.k = "str" /\ Len(x.s) >= 10

\* lines 85-86: the sentinel and a text of ten characters are set to missing
IsPatientId(x) == x.k = "str" /\ Len(x.s) = 10

CleanContact(x) ==
    LET y == IF x.k = "str" /\ x.s = Sentinel THEN Field(<<>>) ELSE x
    IN IF IsPatientId(y) THEN Field(<<>>) ELSE y

\* read_csv leaves a column as text when a field of it does not parse
ContactIsText(file) ==
    \E i \in 1..Len(file) :
        file[i].contact_number.k = "str" /\ ~IsNumber(file[i].contact_number.s)

SymptomIsText(file) == \E i \in 1..Len(file) : file[i].symptom_onset_date.k = "blank"

\* lines 88-144 on one row
PatientRow(row) ==
    LET age == AsAge(row.age)
        onset == Timestamp(row.symptom_onset_date)
        confirmed == Timestamp(row.confirmed_date)
        released == Timestamp(row.released_date)
        deceased == Timestamp(row.deceased_date)
    IN [age |-> age,
        age_category |-> assign_age_category(age),
        contact_number |-> AsFloat32(AsFloat(CleanContact(row.contact_number))),
        symptom_to_confirmed |-> AsFloat32(Days(confirmed, onset)),
        confirmed_to_released |-> AsFloat32(Days(released, confirmed)),
        confirmed_to_deceased |-> AsFloat32(Days(deceased, confirmed))]

\* the whole load: the .str accessor of lines 80 and 86 needs a column of text,
\* the cast of line 105 a number in every contact_number that is left
load_patient_info(file) ==
    IF ~SymptomIsText(file) \/ ~ContactIsText(file)
    THEN [status |-> "AttributeError", rows |-> <<>>]
    ELSE IF \E i \in 1..Len(file) : ~CanFloat(CleanContact(file[i].contact_number))
    THEN [status |-> "ValueError", rows |-> <<>>]
    ELSE [status |-> "ok", rows |-> [i \in 1..Len(file) |-> PatientRow(file[i])]]

(* ---------------------- the patient files on disk ---------------------- *)

MaxPatients == 2

PatientRowOf(age, contact, onset, confirmed, released, deceased) ==
    [age |-> age, contact_number |-> contact, symptom_onset_date |-> onset,
     confirmed_date |-> confirmed, released_date |-> released, deceased_date |-> deceased]

AgeTexts == {Field(age_categories[i]) : i \in 1..Len(age_categories)} \cup {Field(<<>>)}

ContactTexts ==
    {Field(<<>>), Field(Sentinel), Field(<<"5">>), Field(<<"x">>),
     Field(<<"1", "0", "0", "0", "0", "0", "0", "0", "0", "2">>),
     Field(<<"1", "6", "7", "7", "7", "2", "1", "7">>),
     Field(<<"0", "0", "0", "0", "0", "0", "0", "0", "0", "0", "5">>)}

OnsetTexts == {EmptyText, BlankText, DateText(1, 5)}

ConfirmedTexts == {EmptyText, DateText(1, 10), DateText(3, 1)}

\* released_date and deceased_date of a patient
OutcomeTexts == {<<EmptyText, EmptyText>>, <<DateText(1, 20), EmptyText>>,
                 <<EmptyText, DateText(2, 29)>>}

\* the rows of the files: every age, every contact_number and every combination
\* of dates, each with the other fields of an ordinary row
PatientRows ==
    {PatientRowOf(a, Field(Sentinel), BlankText, DateText(1, 10), EmptyText, EmptyText) :
        a \in AgeTexts}
    \cup {PatientRowOf(Field(Age(3)), c, BlankText, DateText(1, 10), EmptyText, EmptyText) :
        c \in ContactTexts}
    \cup {PatientRowOf(Field(Age(3)), Field(Sentinel), o, c, rd[1], rd[2]) :
        o \in OnsetTexts, c \in ConfirmedTexts, rd \in OutcomeTexts}

PatientFiles == UNION {[1..n -> PatientRows] : n \in 1..MaxPatients}

\* a file of patients is on disk, nothing is loaded; the other functions are not used
PatientInit ==
    /\ patient_csv \in PatientFiles /\ patient_out = NotLoaded
    /\ cases_csv = <<>> /\ cases_out = NotLoaded
    /\ df = NoTable /\ expand = <<>> /\ ratio = <<"", "">> /\ grouping = "None"
    /\ df_arg = NoTable /\ expand_arg = <<>> /\ ret = [status |-> "none", table |-> NoTable]

\* the analysis script calls load_patient_info(path) on the file at path
LoadPatients ==
    /\ patient_out' = load_patient_info(patient_csv)
    /\ UNCHANGED patient_csv

(* --------------------------- update_time_df ---------------------------- *)

NoGrouping == "None"

ratio_column_name(rt) == rt[1] \o "_to_" \o rt[2] \o "_ratio"

\* PrevRow as it would be if the rows were not grouped: always the row above
PrevRow_ungrouped(t, grp, r) == r - 1

\* the previous row of the same group (0 if r opens its group); without
\* grouping the previous row of the table
PrevRow(t, grp, r) ==
    IF grp = NoGrouping THEN r - 1
    ELSE LET same == {p \in 1..(r - 1) : Cell(t, p, grp) = Cell(t, r, grp)}
         IN IF same = {} THEN 0 ELSE CHOOSE p \in same : \A q \in same : q <= p

\* df.groupby(grouping)[expand].diff() / df[expand].diff()
diff(t, e, grp) ==
    [cols |-> e, idx |-> t.idx,
     data |-> [r \in 1..NRows(t) |->
                 [j \in 1..Len(e) |->
                    LET p == PrevRow(t, grp, r)
                    IN IF p = 0 THEN NaN ELSE Sub(Cell(t, r, e[j]), Cell(t, p, e[j]))]]]

\* fillna as it would be with fillna(0): a missing delta becomes zero
fillna_zero(n, t) ==
    [n EXCEPT !.data = [r \in 1..NRows(n) |->
        [j \in 1..Len(n.cols) |->
            IF isnull(n.data[r][j]) THEN Int_(0) ELSE n.data[r][j]]]]

\* df_new.fillna(value=df): a missing cell takes the cell of df at the same label and column
fillna(n, t) ==
    [n EXCEPT !.data = [r \in 1..NRows(n) |->
        [j \in 1..Len(n.cols) |->
            IF isnull(n.data[r][j]) /\ HasCol(t, n.cols[j])
            THEN Cell(t, r, n.cols[j]) ELSE n.data[r][j]]]]

AllCastable(n) == \A r \in 1..NRows(n) : \A j \in 1..Len(n.cols) : IntCastable(n.data[r][j])

astype_int(n) ==
    [n EXCEPT !.data = [r \in 1..NRows(n) |-> [j \in 1..Len(n.cols) |-> AsInt(n.data[r][j])]]]

RatioColumn(t, rt) == [r \in 1..NRows(t) |-> TrueDiv(Cell(t, r, rt[1]), Cell(t, r, rt[2]))]

\* for column in expand: df.rename(columns={column: "accumulated_" + column}, inplace=True)
RECURSIVE RenameAll(_, _, _)
RenameAll(t, e, i) ==
    IF i > Len(e) THEN t
    ELSE RenameAll(Rename(t, e[i], "accumulated_" \o e[i]), e, i + 1)

\* df_new_of as it would be with the prefix added before the ratio column
df_new_of_prefix_first(filled, rt) ==
    LET ints == astype_int(filled)
    IN SetCol(add_prefix(ints, "new_"), ratio_column_name(rt), RatioColumn(ints, rt))

\* the delta table with its ratio column and prefix (lines 172-175), from the filled deltas
df_new_of(filled, rt) ==
    LET ints == astype_int(filled)
    IN add_prefix(SetCol(ints, ratio_column_name(rt), RatioColumn(ints, rt)), "new_")

\* the caller's list after expand.append(ratio_column_name)
ExpandAfter(e, rt) == Append(e, ratio_column_name(rt))

\* the caller's table after the ratio column is added and the columns are renamed
DfAfter(t, e, rt) ==
    RenameAll(SetCol(t, ratio_column_name(rt), RatioColumn(t, rt)), ExpandAfter(e, rt), 1)

\* Raised as it would be if the list were extended before the delta table is built
Raised_after_append(err, t, e, rt) ==
    [status |-> err, table |-> NoTable, df |-> t, expand |-> Append(e, rt[1] \o "_to_" \o rt[2] \o "_ratio")]

\* an exception leaves the function: nothing is returned, the caller's objects are as they are
Raised(err, t, e, rt) == [status |-> err, table |-> NoTable, df |-> t, expand |-> e]

\* the whole call: the returned table or the exception raised, and the caller's
\* table and list as the call leaves them
update_time_df(t, e, rt, grp) ==
    IF (grp # NoGrouping /\ ~HasCol(t, grp)) \/ \E j \in 1..Len(e) : ~HasCol(t, e[j])
    THEN Raised("KeyError", t, e, rt)
    ELSE LET filled == fillna(diff(t, e, grp), t)
         IN IF ~AllCastable(filled) THEN Raised("ValueError", t, e, rt)
            ELSE IF ~InList(e, rt[1]) \/ ~InList(e, rt[2]) THEN Raised("KeyError", t, e, rt)
            ELSE [status |-> "ok",
                  table |-> concat(DfAfter(t, e, rt), df_new_of(filled, rt)),
                  df |-> DfAfter(t, e, rt),
                  expand |-> ExpandAfter(e, rt)]

(* ------------------- the caller of the expander ------------------------ *)

\* the values of the grouping column; every row carries one
GroupKeys == {Int_(1), Int_(2)}

\* the accumulated counts (a, b) a row may carry; a count may be missing
Counts == {<<NaN, Int_(2)>>, <<Int_(1), Int_(0)>>, <<Int_(1), Int_(2)>>, <<Int_(3), Int_(2)>>}

TimeCols == <<"g", "a", "b">>

TimeRows == {<<g, ab[1], ab[2]>> : g \in GroupKeys, ab \in Counts}

\* the index labels of a table of n rows
DateIndex(n) == [i \in 1..n |-> 10 * i]

TimeTables ==
    UNION {{[cols |-> TimeCols, idx |-> DateIndex(n), data |-> rows] :
              rows \in [1..n -> TimeRows]} : n \in 0..MaxRows}

ExpandLists == {<<"a", "b">>, <<"a">>, <<"b", "a", "c">>}

Ratios == {<<"a", "b">>, <<"b", "a">>, <<"a", "a">>}

Groupings == {NoGrouping, "g", "h"}

NoCall == [status |-> "none", table |-> NoTable]

TimeInit ==
    /\ df \in TimeTables
    /\ expand \in ExpandLists
    /\ ratio = <<"", "">>
    /\ grouping = NoGrouping
    /\ df_arg = NoTable
    /\ expand_arg = <<>>
    /\ ret = NoCall
    /\ cases_csv = <<>> /\ cases_out = NotLoaded
    /\ patient_csv = <<>> /\ patient_out = NotLoaded

\* the analysis script calls update_time_df(df, expand, rt, grp) on the table and
\* the list it holds (TimeInit: any table and list it may have built)
CallUpdate ==
    \E rt \in Ratios, grp \in Groupings :
        \E out \in {update_time_df(df, expand, rt, grp)} :
           /\ ratio' = rt
           /\ grouping' = grp
           /\ df_arg' = df
           /\ expand_arg' = expand
           /\ df' = out.df
           /\ expand' = out.expand
           /\ ret' = [status |-> out.status, table |-> out.table]

TimeNext == CallUpdate /\ UNCHANGED <<cases_vars, patient_vars>>

SpecTime == TimeInit /\ [][TimeNext]_vars

CasesNext == LoadCases /\ UNCHANGED <<time_vars, patient_vars>>

SpecCases == CasesInit /\ [][CasesNext]_vars

PatientNext == LoadPatients /\ UNCHANGED <<time_vars, cases_vars>>

SpecPatient == PatientInit /\ [][PatientNext]_vars

(* ------------------- properties of update_time_df ---------------------- *)

Returned == ret.status = "ok"

Failed == ret.status \in {"KeyError", "ValueError"}

\* the rows of the group of row r, up to and including r (all rows up to r without grouping)
GroupUpTo(r) ==
    {p \in 1..r : grouping = NoGrouping \/ Cell(df_arg, p, grouping) = Cell(df_arg, r, grouping)}

FirstOfGroup(r) == GroupUpTo(r) = {r}

\* the row before r in its group
Before(r) == CHOOSE p \in GroupUpTo(r) \ {r} : \A q \in GroupUpTo(r) \ {r} : q <= p

RECURSIVE SumNew(_, _)
SumNew(c, S) ==
    IF S = {} THEN 0
    ELSE LET p == CHOOSE q \in S : TRUE
         IN Cell(ret.table, p, "new_" \o c).n + SumNew(c, S \ {p})

ExpandedCols == {expand_arg[j] : j \in 1..Len(expand_arg)}

\* C1: in the table a call returns, new_c of a row is the accumulated value c of
\* that row when the row opens its group (the table, without grouping), and
\* otherwise c of the row minus c of the previous row of the same group.
C1_NewIsFirstDifference ==
    Returned =>
        \A c \in ExpandedCols : \A r \in 1..NRows(df_arg) :
            /\ HasCol(ret.table, "new_" \o c)
            /\ Cell(ret.table, r, "new_" \o c) =
                  IF FirstOfGroup(r) THEN Cell(df_arg, r, c)
                  ELSE Int_(Cell(df_arg, r, c).n - Cell(df_arg, Before(r), c).n)

\* a grouped call returned, and some row's previous row of its group is not the row above it
C1_Witness ==
    /\ Returned
    /\ grouping = "g"
    /\ \E r \in 1..NRows(df_arg) :
          /\ ~FirstOfGroup(r)
          /\ Before(r) # r - 1
          /\ Cell(ret.table, r, "new_a") # Cell(df_arg, r, "a")

\* C3: after a call returns, the caller's table and the caller's expand list are
\* as they were when the call was made.
C3_CallerObjectsUntouched ==
    Returned => df = df_arg /\ expand = expand_arg

\* C4: the returned table has the rows and the index of the input, and in every
\* group the accumulated value of a row is the accumulated value of the group's
\* first row plus the new values of the group's later rows up to that row, which
\* is the sum of the new values of the group up to that row.
C4_RoundTrip ==
    Returned =>
        /\ NRows(ret.table) = NRows(df_arg)
        /\ Len(ret.table.data) = Len(df_arg.data)
        /\ ret.table.idx = df_arg.idx
        /\ \A c \in ExpandedCols : \A r \in 1..NRows(df_arg) :
              LET first == CHOOSE p \in GroupUpTo(r) : \A q \in GroupUpTo(r) : p <= q
              IN /\ HasCol(ret.table, "accumulated_" \o c)
                 /\ Cell(ret.table, r, "accumulated_" \o c) = Cell(df_arg, r, c)
                 /\ Cell(df_arg, r, c).n =
                        Cell(df_arg, first, c).n + SumNew(c, GroupUpTo(r) \ {first})
                 /\ Cell(df_arg, r, c).n = SumNew(c, GroupUpTo(r))

\* a call returned a table in which a group has three rows
C4_Witness ==
    /\ Returned
    /\ \E r \in 1..NRows(df_arg) : Cardinality(GroupUpTo(r)) >= 3 /\ Cell(df_arg, r, "a").n = 3

ColSet(t) == {t.cols[j] : j \in 1..Len(t.cols)}

\* C8: the returned table has exactly the input columns that were not expanded,
\* accumulated_c and new_c of every expanded c, and the accumulated and the new
\* ratio column; no expanded column keeps its bare name; in every row the new
\* ratio is new_n / new_d and the accumulated ratio is accumulated_n / accumulated_d.
C8_ColumnsAndRatio ==
    Returned =>
        LET rcn == ratio[1] \o "_to_" \o ratio[2] \o "_ratio"
            t == ret.table
        IN /\ ColSet(t) = (ColSet(df_arg) \ ExpandedCols)
                            \cup {"accumulated_" \o c : c \in ExpandedCols}
                            \cup {"new_" \o c : c \in ExpandedCols}
                            \cup {"accumulated_" \o rcn, "new_" \o rcn}
           /\ Cardinality(ColSet(t)) = Len(t.cols)
           /\ \A c \in ExpandedCols : ~HasCol(t, c)
           /\ \A c \in ColSet(df_arg) \ ExpandedCols : \A r \in 1..NRows(t) :
                 Cell(t, r, c) = Cell(df_arg, r, c)
           /\ \A r \in 1..NRows(t) :
                 /\ Cell(t, r, "new_" \o rcn) =
                       TrueDiv(Cell(t, r, "new_" \o ratio[1]), Cell(t, r, "new_" \o ratio[2]))
                 /\ Cell(t, r, "accumulated_" \o rcn) =
                       TrueDiv(Cell(t, r, "accumulated_" \o ratio[1]),
                               Cell(t, r, "accumulated_" \o ratio[2]))

\* a call with ratio (a, b) returned, and in some row the ratio of the deltas is
\* not the delta of the ratios
C8_Witness ==
    /\ Returned
    /\ ratio = <<"a", "b">>
    /\ \E r \in 2..NRows(ret.table) :
          /\ Cell(ret.table, r, "new_a_to_b_ratio").k = "float"
          /\ Cell(ret.table, r, "accumulated_a_to_b_ratio").k = "float"
          /\ Cell(ret.table, r - 1, "accumulated_a_to_b_ratio").k = "float"
          /\ Cell(ret.table, r, "new_a_to_b_ratio") #
                Sub(Cell(ret.table, r, "accumulated_a_to_b_ratio"),
                    Cell(ret.table, r - 1, "accumulated_a_to_b_ratio"))

\* C10: when a call fails, the caller's table has no column added or renamed and
\* the caller's expand list has no element appended.
C10_FailureBeforeWrites ==
    Failed => df = df_arg /\ expand = expand_arg

\* a call failed at the last statement that can raise: its columns and its grouping
\* column are in the table and no delta is missing, but the ratio is not in expand
C10_Witness ==
    /\ ret.status = "KeyError"
    /\ NRows(df_arg) > 1
    /\ grouping = "g"
    /\ \A j \in 1..Len(expand_arg) : HasCol(df_arg, expand_arg[j])
    /\ ~InList(expand_arg, ratio[2])

(* ------------------- properties of load_cases_data --------------------- *)

CasesLoaded == cases_out.status = "ok"

\* C5: the output city is the input province where the input city is "-" and the
\* input city elsewhere; sub_city is the province where that city is "from other
\* city" and that city elsewhere; so sub_city is not missing when the city is
\* known, or is "-" or "from other city" with a province that is not missing.
C5_CityAndSubCity ==
    CasesLoaded =>
        \A i \in 1..Len(cases_csv) :
            LET in == cases_csv[i]
                out == cases_out.rows[i]
            IN /\ out.city = IF in.city = Str("-") THEN in.province ELSE in.city
               /\ out.sub_city = IF out.city = Str("from other city")
                                 THEN in.province ELSE out.city
               /\ (in.city.k = "str" /\ in.city.s \notin {"-", "from other city"})
                     => out.sub_city.k = "str"
               /\ (in.city.k = "str" /\ in.city.s \in {"-", "from other city"}
                      /\ in.province.k = "str") => out.sub_city.k = "str"

\* a file was loaded with a row without city and a row from another city
C5_Witness ==
    /\ CasesLoaded
    /\ \E i, j \in 1..Len(cases_csv) :
          /\ cases_csv[i].city = Str("-") /\ cases_out.rows[i].sub_city = Str("Seoul")
          /\ cases_csv[j].city = Str("from other city")
          /\ cases_out.rows[j].city = Str("from other city")
          /\ cases_out.rows[j].sub_city = Str("Seoul")

\* the number a coordinate text of the file stands for, missing for an empty field
NumericValue(x) == IF x.k = "nan" THEN NaN ELSE ParseNumber(x.s)

\* C7: in a load that succeeds, a row whose input latitude is "-" has latitude and
\* longitude missing, and every other row keeps the numeric values of both.
C7_SentinelCoordinates ==
    CasesLoaded =>
        \A i \in 1..Len(cases_csv) :
            LET in == cases_csv[i]
                out == cases_out.rows[i]
            IN IF in.latitude = Field(Sentinel)
               THEN isnull(out.latitude) /\ isnull(out.longitude)
               ELSE /\ out.latitude = NumericValue(in.latitude)
                    /\ out.longitude = NumericValue(in.longitude)

\* a file was loaded with a row of latitude "-" and a numeric longitude, and a row
\* of two numeric coordinates
C7_Witness ==
    /\ CasesLoaded
    /\ \E i, j \in 1..Len(cases_csv) :
          /\ cases_csv[i].latitude = Field(Sentinel)
          /\ cases_csv[i].longitude = Field(<<"1", "2", "7">>)
          /\ isnull(cases_out.rows[i].longitude)
          /\ cases_out.rows[j].latitude = Float(75, 2)
          /\ cases_out.rows[j].longitude = Float(-33, 4)

(* ------------------ properties of load_patient_info -------------------- *)

PatientsLoaded == patient_out.status = "ok"

\* the place of an age in the fixed order 0s < 10s < ... < 100s
Rank(a) == CHOOSE i \in 1..Len(age_categories) : age_categories[i] = a

\* C2: with ages compared in the order 0s < 10s < ... < 100s, age_category is
\* young iff the age is at most 20s, middle iff it is above 20s and at most 50s,
\* old iff it is above 50s, and missing iff the age is missing.
C2_AgeCategoryByRank ==
    PatientsLoaded =>
        \A i \in 1..Len(patient_csv) :
            LET age == patient_out.rows[i].age
                cat == patient_out.rows[i].age_category
            IN IF age.k = "nan" THEN cat = NaS
               ELSE /\ cat = Str("young") <=> Rank(age.s) <= Rank(Age(2))
                    /\ cat = Str("middle") <=>
                          (Rank(age.s) > Rank(Age(2)) /\ Rank(age.s) <= Rank(Age(5)))
                    /\ cat = Str("old") <=> Rank(age.s) > Rank(Age(5))

\* the dates of 2020 after date text x up to and including date text y
DatesBetween(x, y) ==
    {md \in (1..12) \X (1..31) :
        /\ md[2] <= DaysInMonth(md[1])
        /\ md[1] > x.m \/ (md[1] = x.m /\ md[2] > x.d)
        /\ md[1] < y.m \/ (md[1] = y.m /\ md[2] <= y.d)}

\* the whole days from date text x to date text y, missing when one is no date
WholeDays(x, y) ==
    IF x.k # "date" \/ y.k # "date" THEN NaN
    ELSE Float(Cardinality(DatesBetween(x, y)) - Cardinality(DatesBetween(y, x)), 1)

\* C6: each interval column is the destination date minus the source date in
\* whole days when both dates are there, and missing iff one of them is missing.
C6_Intervals ==
    PatientsLoaded =>
        \A i \in 1..Len(patient_csv) :
            LET in == patient_csv[i]
                out == patient_out.rows[i]
            IN /\ out.symptom_to_confirmed = WholeDays(in.symptom_onset_date, in.confirmed_date)
               /\ out.confirmed_to_released = WholeDays(in.confirmed_date, in.released_date)
               /\ out.confirmed_to_deceased = WholeDays(in.confirmed_date, in.deceased_date)
               /\ isnull(out.symptom_to_confirmed) <=>
                     (in.symptom_onset_date.k # "date" \/ in.confirmed_date.k # "date")
               /\ isnull(out.confirmed_to_released) <=>
                     (in.confirmed_date.k # "date" \/ in.released_date.k # "date")
               /\ isnull(out.confirmed_to_deceased) <=>
                     (in.confirmed_date.k # "date" \/ in.deceased_date.k # "date")

\* a file was loaded with a patient confirmed on 2020-01-10 and released on
\* 2020-01-20, and a patient confirmed on 2020-03-01 after an onset on 2020-01-05
\* who died on 2020-02-29
C6_Witness ==
    /\ PatientsLoaded
    /\ \E i, j \in 1..Len(patient_csv) :
          /\ patient_csv[i].confirmed_date = DateText(1, 10)
          /\ patient_csv[i].released_date = DateText(1, 20)
          /\ patient_out.rows[i].confirmed_to_released = Float(10, 1)
          /\ isnull(patient_out.rows[i].confirmed_to_deceased)
          /\ patient_csv[j].symptom_onset_date = DateText(1, 5)
          /\ patient_out.rows[j].symptom_to_confirmed = Float(56, 1)
          /\ patient_out.rows[j].confirmed_to_deceased = Float(-1, 1)

\* is the contact_number text one the loader sets to missing
Nulled(x) == x.k = "nan" \/ x.s = Sentinel \/ Len(x.s) = 10

\* C9: contact_number is missing where the input is "-", has exactly 10
\* characters or was missing, and every other input is kept as its numeric value.
C9_ContactKeptExactly ==
    PatientsLoaded =>
        \A i \in 1..Len(patient_csv) :
            LET in == patient_csv[i].contact_number
                out == patient_out.rows[i].contact_number
            IN IF Nulled(in) THEN isnull(out) ELSE out = ParseNumber(in.s)

\* C9, amended: contact_number is missing exactly where the input is "-", has
\* exactly 10 characters or was missing; every other input is kept as a single
\* precision float: as its numeric value when that is a whole number of at most
\* 2^24, and within a relative error of 2^-24 of it otherwise.
C9_ContactKeptAsFloat32 ==
    PatientsLoaded =>
        \A i \in 1..Len(patient_csv) :
            LET in == patient_csv[i].contact_number
                out == patient_out.rows[i].contact_number
            IN IF Nulled(in) THEN isnull(out)
               ELSE LET v == ParseNumber(in.s)
                    IN /\ out.k = "float" /\ out.d = 1 /\ v.d = 1
                       /\ Abs(v.n) <= Pow2(24) => out = v
                       /\ Abs(out.n - v.n) * Pow2(24) <= Abs(v.n)

\* a file was loaded with the sentinel in one row and a text of 10 characters in another
C9_Witness ==
    /\ PatientsLoaded
    /\ \E i, j \in 1..Len(patient_csv) :
          /\ patient_csv[i].contact_number = Field(Sentinel)
          /\ isnull(patient_out.rows[i].contact_number)
          /\ patient_csv[j].contact_number.k = "str"
          /\ Len(patient_csv[j].contact_number.s) = 10
          /\ isnull(patient_out.rows[j].contact_number)

====
